---- MODULE Spec2Model ----
(***************************************************************************)
(* Model of the real-estate backend API (src/main.py, src/schemas.py).     *)
(*                                                                         *)
(* A handler that makes one call to the store is one action: it reads the  *)
(* store, possibly writes it, and leaves the request (req), the predicate  *)
(* it sent to the store (filt) and its HTTP response (resp) in the state.  *)
(* A handler that makes several calls (seed_demo_data: two counts and      *)
(* three inserts; create_lead: the insert, then the outbound CRM call) is  *)
(* one action per call; handlers run in worker threads, so the steps of    *)
(* other requests come between them. Such a request is in the state (seed, *)
(* leadsInFlight) from its first call to its response.                     *)
(*                                                                         *)
(* Representation of Python values:                                        *)
(*   - Optional[T]: None is <<>>, a present value x is <<x>>;              *)
(*   - a str whose characters the code inspects (identifiers, slugs,       *)
(*     location text) is a sequence of one-character strings; a str the    *)
(*     code only compares, tests for emptiness or measures is a TLA+       *)
(*     string;                                                             *)
(*   - a dict is a function from its keys;                                 *)
(*   - an ObjectId is the record [oid |-> the hex digits of its bytes, in  *)
(*     lower case],                                                        *)
(*     distinct from the str that renders it.                              *)
(* Timestamps (created_at, updated_at) and the media/SEO fields of a       *)
(* property are not part of the state.                                     *)
(***************************************************************************)
EXTENDS Integers, Sequences, FiniteSets, TLC

VARIABLES
    dbUp,       \* database.db is not None (fixed when the process starts)
    property,   \* db["property"], in natural (insertion) order
    service,    \* db["service"]
    lead,       \* db["lead"]
    req,        \* the last request answered: [op |-> ..., and its parameters]
    filt,       \* the predicate that handler sent to the store, Optional
    resp,       \* its HTTP response: [code |-> ..., body |-> ...]
    crm,        \* what the last create_lead answered did with the CRM
    seed,       \* the seed_demo_data requests: worker -> [pc, i, created]
    leadsInFlight   \* the create_lead requests between insert and response

vars == <<dbUp, property, service, lead, req, filt, resp, crm, seed, leadsInFlight>>

(***************************************************************************)
(* Bounds of the model.                                                    *)
(***************************************************************************)
MaxProps == 2
MaxServices == 1
MaxLeads == 1
\* seed_demo_data requests in progress at the same time.
MaxSeeds == 1

(***************************************************************************)
(* Python values.                                                          *)
(***************************************************************************)
None == <<>>
Some(x) == <<x>>
EmptyDict == <<>>

\* dict[k] = v
Put(d, k, v) == [x \in (DOMAIN d) \cup {k} |-> IF x = k THEN v ELSE d[x]]

\* Python truthiness of an Optional[str]: neither None nor empty.
Truthy(o) == o # None /\ Len(o[1]) > 0

Min(a, b) == IF a <= b THEN a ELSE b
Abs(n) == IF n < 0 THEN 0 - n ELSE n

\* c * n for a one-character string c: as a character sequence, as a string.
Chars(c, n) == [i \in 1..n |-> c]
RECURSIVE Str(_, _)
Str(c, n) == IF n = 0 THEN "" ELSE c \o Str(c, n - 1)

\* str.lower() on one character (ASCII letters).
ToLower ==
    [ A |-> "a", B |-> "b", C |-> "c", D |-> "d", E |-> "e", F |-> "f", G |-> "g",
      H |-> "h", I |-> "i", J |-> "j", K |-> "k", L |-> "l", M |-> "m", N |-> "n",
      O |-> "o", P |-> "p", Q |-> "q", R |-> "r", S |-> "s", T |-> "t", U |-> "u",
      V |-> "v", W |-> "w", X |-> "x", Y |-> "y", Z |-> "z" ]
UpperCase == DOMAIN ToLower
LowerChar(c) == IF c \in UpperCase THEN ToLower[c] ELSE c
Lower(s) == [i \in 1..Len(s) |-> LowerChar(s[i])]

(***************************************************************************)
(* bson.ObjectId.                                                          *)
(***************************************************************************)
OidLen == 24
HexDigits == {"0", "1", "2", "3", "4", "5", "6", "7", "8", "9",
              "a", "b", "c", "d", "e", "f", "A", "B", "C", "D", "E", "F"}

\* The six ASCII whitespace characters bytes.fromhex skips: space, \t, \n,
\* \f, \r and the vertical tab (0x0b, written raw: it has no escape).
AsciiSpace == {" ", "\t", "\n", "\f", "\r", ""}

\* The loop of bytes.fromhex(s) from position i: whitespace is skipped
\* before each byte and at the end, a byte is two adjacent hex digits. FALSE
\* is the ValueError.
RECURSIVE HexBytes(_, _)
HexBytes(s, i) ==
    IF i > Len(s) THEN TRUE
    ELSE IF s[i] \in AsciiSpace THEN HexBytes(s, i + 1)
    ELSE /\ i + 1 <= Len(s)
         /\ s[i] \in HexDigits
         /\ s[i + 1] \in HexDigits
         /\ HexBytes(s, i + 2)

\* bytes.fromhex(s), when it does not raise: the bytes, as their lower-case
\* hex digits.
FromHex(s) == Lower(SelectSeq(s, LAMBDA c : c \notin AsciiSpace))

\* ObjectId.is_valid(s) for a str: ObjectId(s) does not raise, that is, s has
\* 24 characters and bytes.fromhex(s) succeeds. A string of 24 characters
\* that holds whitespace between its bytes is valid, and gives fewer than 12
\* bytes.
IsValidId(s) == Len(s) = OidLen /\ HexBytes(s, 1)

\* ObjectId(s) holds bytes.fromhex(s); str(oid) is their lower-case hex.
HexDigit(n) == <<"0", "1", "2", "3", "4", "5", "6", "7", "8", "9">>[n + 1]
ObjectId(s) == [oid |-> FromHex(s)]
StrOfObjectId(o) == o.oid

\* An ObjectId of 12 bytes (the store's _id type).
TwelveBytes(o) == Len(o.oid) = OidLen

\* The identifier the store assigns to the n-th inserted document (distinct
\* for distinct n, 24 lower-case hex digits).
NewObjectId(n) == [oid |-> Chars("0", 22) \o <<"a", HexDigit(n)>>]

(***************************************************************************)
(* The store: find, find_one, update_one, limit (pymongo).                 *)
(***************************************************************************)
\* {"$regex": pattern, "$options": "i"} on a field: a case-insensitive
\* search of the pattern in the value (patterns here hold no metacharacter);
\* a null field matches nothing.
RegexSearch(pattern, v) ==
    /\ v # None
    /\ \E i \in 0..(Len(v[1]) - Len(pattern)) :
          \A j \in 1..Len(pattern) : LowerChar(v[1][i + j]) = LowerChar(pattern[j])

\* {"$gte": a, "$lte": b} on a field; a null field matches nothing.
RangeMatch(cond, v) ==
    /\ v # None
    /\ ("$gte" \in DOMAIN cond => v[1] >= cond["$gte"])
    /\ ("$lte" \in DOMAIN cond => v[1] <= cond["$lte"])

\* One {field: condition} of a predicate against a document.
MatchField(doc, k, cond) ==
    CASE k \in {"location", "city", "state"} ->
            RegexSearch(cond["$regex"], IF k = "location" THEN Some(doc[k]) ELSE doc[k])
      [] k = "price" -> RangeMatch(cond, Some(doc.price))
      [] k \in {"bedrooms", "bathrooms"} -> RangeMatch(cond, doc[k])
      [] OTHER -> doc[k] = cond

\* A predicate is a dict: every key must hold; "$or" holds a list of dicts.
RECURSIVE Matches(_, _)
Matches(doc, f) ==
    \A k \in DOMAIN f :
        IF k = "$or"
        THEN \E i \in 1..Len(f[k]) : Matches(doc, f[k][i])
        ELSE MatchField(doc, k, f[k])

\* collection.find(f): the matching documents in natural order.
Find(coll, f) == SelectSeq(coll, LAMBDA d : Matches(d, f))

\* collection.find_one(f): the first match, or None.
FindOne(coll, f) ==
    LET found == Find(coll, f)
    IN IF found = <<>> THEN None ELSE Some(Head(found))

\* cursor.limit(n): 0 means no limit; a negative n limits to |n|.
Limit(items, n) ==
    IF n = 0 THEN items ELSE SubSeq(items, 1, Min(Abs(n), Len(items)))

\* update_one(f, {"$set": data}): the first match gets data's fields.
SetFields(doc, data) ==
    [k \in (DOMAIN doc) \cup (DOMAIN data) |-> IF k \in DOMAIN data THEN data[k] ELSE doc[k]]
MatchedCount(coll, f) == IF \E i \in 1..Len(coll) : Matches(coll[i], f) THEN 1 ELSE 0
UpdateOne(coll, f, data) ==
    IF MatchedCount(coll, f) = 0 THEN coll
    ELSE LET i == CHOOSE i \in 1..Len(coll) :
                    /\ Matches(coll[i], f)
                    /\ \A j \in 1..(i - 1) : ~Matches(coll[j], f)
         IN [coll EXCEPT ![i] = SetFields(coll[i], data)]

\* What the driver and the store do with a predicate: one whose ObjectIds
\* all have 12 bytes is evaluated; an ObjectId of fewer bytes is not a BSON
\* ObjectId, and the call either raises or is evaluated with an _id that
\* equals no stored _id.
Clauses(f) == IF "$or" \in DOMAIN f THEN f["$or"] ELSE <<f>>
StoreOutcomes(f) ==
    IF \E i \in 1..Len(Clauses(f)) :
          "_id" \in DOMAIN Clauses(f)[i] /\ ~TwelveBytes(Clauses(f)[i]["_id"])
    THEN {"evaluates", "raises"}
    ELSE {"evaluates"}

\* insert_one(doc): the store assigns the _id.
InsertOne(coll, doc) == Append(coll, Put(doc, "_id", NewObjectId(Len(coll) + 1)))

(***************************************************************************)
(* serialize_doc.                                                          *)
(***************************************************************************)
SerializeDoc(doc) ==
    IF DOMAIN doc = {} THEN doc
    ELSE IF "_id" \in DOMAIN doc
         THEN [k \in DOMAIN doc |-> IF k = "_id" THEN StrOfObjectId(doc[k]) ELSE doc[k]]
         ELSE doc
SerializeAll(items) == [i \in 1..Len(items) |-> SerializeDoc(items[i])]

(***************************************************************************)
(* HTTPException.                                                          *)
(***************************************************************************)
HttpError(code, detail) == [code |-> code, body |-> [detail |-> detail]]
DbNotAvailable == HttpError(500, "Database not available")
PropertyNotFound == HttpError(404, "Property not found")
InvalidId == HttpError(400, "Invalid id")
\* An exception no handler catches.
InternalServerError == [code |-> 500, body |-> "Internal Server Error"]

(***************************************************************************)
(* list_properties: the predicate built from the search parameters.        *)
(* A query q is a record of Optionals:                                     *)
(*   location, type, status, min_price, max_price, bedrooms, bathrooms,    *)
(*   featured.                                                             *)
(***************************************************************************)
DefaultLimit == 50

RegexClause(field, location) ==
    field :> ("$regex" :> location @@ "$options" :> "i")

\* The "$or" group of the location parameter.
LocationOr(location) ==
    << RegexClause("location", location),
       RegexClause("city", location),
       RegexClause("state", location) >>

\* Mutant of PriceFilter: the bounds tested by truthiness, so that 0 is dropped.
PriceFilter_Truthy(min_price, max_price) ==
    LET p0 == EmptyDict
        p1 == IF min_price # None /\ min_price[1] # 0
              THEN Put(p0, "$gte", min_price[1]) ELSE p0
        p2 == IF max_price # None /\ max_price[1] # 0
              THEN Put(p1, "$lte", max_price[1]) ELSE p1
    IN p2

\* price_filter: a bound that is None is left out.
PriceFilter(min_price, max_price) ==
    LET p0 == EmptyDict
        p1 == IF min_price # None THEN Put(p0, "$gte", min_price[1]) ELSE p0
        p2 == IF max_price # None THEN Put(p1, "$lte", max_price[1]) ELSE p1
    IN p2

\* Mutant of BuildFilter: featured tested by truthiness, so that false is dropped.
BuildFilter_FeaturedTruthy(q) ==
    LET f0 == EmptyDict
        f1 == IF Truthy(q.location) THEN Put(f0, "$or", LocationOr(q.location[1])) ELSE f0
        f2 == IF Truthy(q.type) THEN Put(f1, "type", q.type[1]) ELSE f1
        f3 == IF Truthy(q.status) THEN Put(f2, "status", q.status[1]) ELSE f2
        f4 == IF q.min_price # None \/ q.max_price # None
              THEN Put(f3, "price", PriceFilter(q.min_price, q.max_price)) ELSE f3
        f5 == IF q.bedrooms # None THEN Put(f4, "bedrooms", "$gte" :> q.bedrooms[1]) ELSE f4
        f6 == IF q.bathrooms # None THEN Put(f5, "bathrooms", "$gte" :> q.bathrooms[1]) ELSE f5
        f7 == IF q.featured # None /\ q.featured[1]
              THEN Put(f6, "featured", q.featured[1]) ELSE f6
    IN f7

BuildFilter(q) ==
    LET f0 == EmptyDict
        f1 == IF Truthy(q.location) THEN Put(f0, "$or", LocationOr(q.location[1])) ELSE f0
        f2 == IF Truthy(q.type) THEN Put(f1, "type", q.type[1]) ELSE f1
        f3 == IF Truthy(q.status) THEN Put(f2, "status", q.status[1]) ELSE f2
        f4 == IF q.min_price # None \/ q.max_price # None
              THEN Put(f3, "price", PriceFilter(q.min_price, q.max_price)) ELSE f3
        f5 == IF q.bedrooms # None THEN Put(f4, "bedrooms", "$gte" :> q.bedrooms[1]) ELSE f4
        f6 == IF q.bathrooms # None THEN Put(f5, "bathrooms", "$gte" :> q.bathrooms[1]) ELSE f5
        f7 == IF q.featured # None THEN Put(f6, "featured", q.featured[1]) ELSE f6
    IN f7

\* Mutant of ListResponse: without a store it raises like the other handlers.
ListResponse_RaisesWithoutStore(q, limit) ==
    IF ~dbUp THEN DbNotAvailable
    ELSE [code |-> 200,
          body |-> SerializeAll(Limit(Find(property, BuildFilter(q)), limit))]

\* What list_properties answers: [] without a store, else the limited find.
ListResponse(q, limit) ==
    IF ~dbUp THEN [code |-> 200, body |-> <<>>]
    ELSE [code |-> 200,
          body |-> SerializeAll(Limit(Find(property, BuildFilter(q)), limit))]

list_properties(q, limit) ==
    /\ req' = [op |-> "list_properties", q |-> q, limit |-> limit]
    /\ filt' = IF dbUp THEN Some(BuildFilter(q)) ELSE None
    /\ resp' = ListResponse(q, limit)
    /\ UNCHANGED <<dbUp, property, service, lead, crm, seed, leadsInFlight>>

(***************************************************************************)
(* get_property.                                                           *)
(***************************************************************************)
\* {"$or": [{"slug": identifier}]}, plus {"_id": ObjectId(identifier)} when
\* the identifier is a valid ObjectId string.
GetFilter(identifier) ==
    "$or" :> (IF IsValidId(identifier)
              THEN << "slug" :> identifier, "_id" :> ObjectId(identifier) >>
              ELSE << "slug" :> identifier >>)

\* What get_property answers when find_one(f) does what store says.
GetAnswer(f, store) ==
    IF store = "raises" THEN InternalServerError
    ELSE LET doc == FindOne(property, f)
         IN IF doc = None THEN PropertyNotFound
            ELSE [code |-> 200, body |-> SerializeDoc(doc[1])]
GetResponse(identifier, store) ==
    IF ~dbUp THEN DbNotAvailable ELSE GetAnswer(GetFilter(identifier), store)

get_property(identifier) ==
    /\ req' = [op |-> "get_property", identifier |-> identifier]
    /\ IF ~dbUp
       THEN /\ filt' = None
            /\ resp' = DbNotAvailable
       ELSE LET f == GetFilter(identifier)
            IN /\ filt' = Some(f)
               /\ \E store \in StoreOutcomes(f) : resp' = GetAnswer(f, store)
    /\ UNCHANGED <<dbUp, property, service, lead, crm, seed, leadsInFlight>>

(***************************************************************************)
(* database.create_document (not among the sources; from the store adapter *)
(* contract: insertOne(document) -> generatedId, and an explicit error     *)
(* when the store is unavailable).                                         *)
(***************************************************************************)
CreateDocumentFails == ~dbUp
CreatedId(coll) == StrOfObjectId(NewObjectId(Len(coll) + 1))

create_property(payload) ==
    /\ Len(property) < MaxProps
    /\ req' = [op |-> "create_property", payload |-> payload]
    /\ filt' = None
    /\ IF CreateDocumentFails
       THEN /\ resp' = DbNotAvailable
            /\ UNCHANGED property
       ELSE /\ property' = InsertOne(property, payload)
            /\ resp' = [code |-> 200, body |-> [_id |-> CreatedId(property)]]
    /\ UNCHANGED <<dbUp, service, lead, crm, seed, leadsInFlight>>

create_service(payload) ==
    /\ Len(service) < MaxServices
    /\ req' = [op |-> "create_service", payload |-> payload]
    /\ filt' = None
    /\ IF CreateDocumentFails
       THEN /\ resp' = DbNotAvailable
            /\ UNCHANGED service
       ELSE /\ service' = InsertOne(service, payload)
            /\ resp' = [code |-> 200, body |-> [_id |-> CreatedId(service)]]
    /\ UNCHANGED <<dbUp, property, lead, crm, seed, leadsInFlight>>

(***************************************************************************)
(* update_property and update_property_status.                             *)
(***************************************************************************)
IdFilter(prop_id) == "_id" :> ObjectId(prop_id)
Updated == [code |-> 200, body |-> [updated |-> TRUE]]

\* The part the two handlers share: the checks, then update_one with data.
UpdateById(prop_id, data) ==
    IF ~dbUp
    THEN /\ filt' = None
         /\ resp' = DbNotAvailable
         /\ UNCHANGED property
    ELSE IF ~IsValidId(prop_id)
    THEN /\ filt' = None
         /\ resp' = InvalidId
         /\ UNCHANGED property
    ELSE LET f == IdFilter(prop_id)
         IN /\ filt' = Some(f)
            /\ \E store \in StoreOutcomes(f) :
                  IF store = "raises"
                  THEN /\ resp' = InternalServerError
                       /\ UNCHANGED property
                  ELSE /\ property' = UpdateOne(property, f, data)
                       /\ resp' = IF MatchedCount(property, f) = 0
                                  THEN PropertyNotFound ELSE Updated

update_property(prop_id, payload) ==
    /\ req' = [op |-> "update_property", prop_id |-> prop_id, payload |-> payload]
    /\ UpdateById(prop_id, payload)
    /\ UNCHANGED <<dbUp, service, lead, crm, seed, leadsInFlight>>

\* UpdateStatus.status is any str.
update_property_status(prop_id, status) ==
    /\ req' = [op |-> "update_property_status", prop_id |-> prop_id, status |-> status]
    /\ UpdateById(prop_id, "status" :> status)
    /\ UNCHANGED <<dbUp, service, lead, crm, seed, leadsInFlight>>

(***************************************************************************)
(* seed_demo_data.                                                         *)
(***************************************************************************)
SeedAzure ==
    [ slug |-> <<"a", "z", "u", "r", "e", "-", "b", "a", "y", "-", "r", "e", "s", "i", "d", "e", "n", "c", "e", "s">>, type |-> "residential", status |-> "pre-sale",
      price |-> 450000, location |-> <<"C", "a", "n", "c", "ú", "n", ",", " ", "Q", "u", "i", "n", "t", "a", "n", "a", " ", "R", "o", "o">>, city |-> Some(<<"C", "a", "n", "c", "ú", "n">>), state |-> Some(<<"Q", "u", "i", "n", "t", "a", "n", "a", " ", "R", "o", "o">>),
      bedrooms |-> Some(3), bathrooms |-> Some(3), featured |-> TRUE ]
SeedSierra ==
    [ slug |-> <<"s", "i", "e", "r", "r", "a", "-", "d", "o", "r", "a", "d", "a", "-", "v", "i", "l", "l", "a", "s">>, type |-> "residential", status |-> "available",
      price |-> 780000, location |-> <<"S", "a", "n", " ", "M", "i", "g", "u", "e", "l", " ", "d", "e", " ", "A", "l", "l", "e", "n", "d", "e", ",", " ", "G", "u", "a", "n", "a", "j", "u", "a", "t", "o">>, city |-> Some(<<"S", "a", "n", " ", "M", "i", "g", "u", "e", "l", " ", "d", "e", " ", "A", "l", "l", "e", "n", "d", "e">>), state |-> Some(<<"G", "u", "a", "n", "a", "j", "u", "a", "t", "o">>),
      bedrooms |-> Some(4), bathrooms |-> Some(4), featured |-> TRUE ]
SeedProps == <<SeedAzure, SeedSierra>>
SeedService == [ slug |-> <<"d", "e", "s", "i", "g", "n", "-", "b", "u", "i", "l", "d">> ]

SeededProperty == InsertOne(InsertOne(<<>>, SeedAzure), SeedSierra)

\* A worker that handles seed_demo_data: pc is the store call it makes
\* next, i the index of the loop over props, created the handler's counts.
NoneCreated == [properties |-> 0, services |-> 0]
SeedIdle == [pc |-> "idle", i |-> 1, created |-> NoneCreated]

\* return {"created": created}
SeedReturn(w, created) ==
    /\ req' = [op |-> "seed_demo_data"]
    /\ filt' = None
    /\ resp' = [code |-> 200, body |-> [created |-> created]]
    /\ seed' = [seed EXCEPT ![w] = SeedIdle]

\* The request arrives: the db check, then count_documents on property.
seed_count_property(w) ==
    /\ seed[w].pc = "idle"
    /\ IF ~dbUp
       THEN /\ req' = [op |-> "seed_demo_data"]
            /\ filt' = None
            /\ resp' = DbNotAvailable
            /\ UNCHANGED seed
       ELSE /\ seed' = [seed EXCEPT ![w].pc = IF Len(property) = 0
                                              THEN "insert_property"
                                              ELSE "count_service"]
            /\ UNCHANGED <<req, filt, resp>>
    /\ UNCHANGED <<dbUp, property, service, lead, crm, leadsInFlight>>

\* One turn of "for p in props": insert_one, counted unless it raises (the
\* exception is passed over). The collection holds at most MaxProps
\* documents.
seed_insert_property(w, raises) ==
    LET i == seed[w].i
        created == seed[w].created
    IN /\ seed[w].pc = "insert_property"
       /\ IF raises
          THEN UNCHANGED property
          ELSE /\ Len(property) < MaxProps
               /\ property' = InsertOne(property, SeedProps[i])
       /\ seed' = [seed EXCEPT ![w] =
                      [ pc |-> IF i < Len(SeedProps) THEN "insert_property" ELSE "count_service",
                        i |-> IF i < Len(SeedProps) THEN i + 1 ELSE 1,
                        created |-> IF raises THEN created
                                    ELSE [created EXCEPT !.properties = @ + 1] ]]
       /\ UNCHANGED <<dbUp, service, lead, req, filt, resp, crm, leadsInFlight>>

\* count_documents on service; the handler returns when it is not empty.
seed_count_service(w) ==
    /\ seed[w].pc = "count_service"
    /\ IF Len(service) = 0
       THEN /\ seed' = [seed EXCEPT ![w].pc = "insert_service"]
            /\ UNCHANGED <<req, filt, resp>>
       ELSE SeedReturn(w, seed[w].created)
    /\ UNCHANGED <<dbUp, property, service, lead, crm, leadsInFlight>>

\* "for s in services" (one service): insert_one, counted unless it raises;
\* then the handler returns.
seed_insert_service(w, raises) ==
    /\ seed[w].pc = "insert_service"
    /\ IF raises
       THEN /\ UNCHANGED service
            /\ SeedReturn(w, seed[w].created)
       ELSE /\ Len(service) < MaxServices
            /\ service' = InsertOne(service, SeedService)
            /\ SeedReturn(w, [seed[w].created EXCEPT !.services = @ + 1])
    /\ UNCHANGED <<dbUp, property, lead, crm, leadsInFlight>>

(***************************************************************************)
(* create_lead.                                                            *)
(* A payload is [name, email, phone, message, score], all but the name an  *)
(* Optional; tok is os.getenv("HUBSPOT_API_KEY") and outcome is what the   *)
(* outbound requests.post does. The handler is two steps: the insert, then *)
(* the CRM call (which blocks up to its timeout) and the response.         *)
(***************************************************************************)
EmailBonus == 10
PhoneBonus == 20
MessageBonus == 10
PhoneMinLen == 10
MessageLen == 80

\* Mutant of Score: the phone must be longer than PhoneMinLen.
Score_PhoneLonger(payload) ==
    (IF Truthy(payload.email) THEN EmailBonus ELSE 0)
  + (IF Truthy(payload.phone) /\ Len(payload.phone[1]) > PhoneMinLen THEN PhoneBonus ELSE 0)
  + (IF Truthy(payload.message) /\ Len(payload.message[1]) > MessageLen THEN MessageBonus ELSE 0)

Score(payload) ==
    (IF Truthy(payload.email) THEN EmailBonus ELSE 0)
  + (IF Truthy(payload.phone) /\ Len(payload.phone[1]) >= PhoneMinLen THEN PhoneBonus ELSE 0)
  + (IF Truthy(payload.message) /\ Len(payload.message[1]) > MessageLen THEN MessageBonus ELSE 0)

\* data = payload.model_dump(); data["score"] = score
LeadData(payload) == Put(payload, "score", Score(payload))

\* Mutant of CrmForward: the exception of the outbound call is not caught.
CrmForward_Uncaught(tok, outcome) ==
    IF ~Truthy(tok) THEN [did |-> "disabled", raised |-> None]
    ELSE IF outcome = "ok" THEN [did |-> "sent", raised |-> None]
    ELSE [did |-> "failed", raised |-> Some("RequestException")]

\* The try/except around the CRM call: what was done, and the exception
\* that leaves the block (none: "except Exception: pass").
CrmForward(tok, outcome) ==
    IF ~Truthy(tok) THEN [did |-> "disabled", raised |-> None]
    ELSE IF outcome = "ok" THEN [did |-> "sent", raised |-> None]
    ELSE [did |-> "failed", raised |-> None]

\* The score, then create_document("lead", data). The request that got its
\* lead stored is in flight with its locals: payload, lead_id, score.
create_lead_insert(payload) ==
    /\ Len(lead) < MaxLeads
    /\ IF CreateDocumentFails
       THEN /\ req' = [op |-> "create_lead", payload |-> payload]
            /\ filt' = None
            /\ resp' = DbNotAvailable
            /\ crm' = "not reached"
            /\ UNCHANGED <<lead, leadsInFlight>>
       ELSE /\ lead' = InsertOne(lead, LeadData(payload))
            /\ leadsInFlight' = leadsInFlight \cup
                  {[payload |-> payload, lead_id |-> CreatedId(lead), score |-> Score(payload)]}
            /\ UNCHANGED <<req, filt, resp, crm>>
    /\ UNCHANGED <<dbUp, property, service, seed>>

\* The CRM block, then return {"_id": lead_id, "score": score}.
create_lead_forward(call, tok, outcome) ==
    /\ call \in leadsInFlight
    /\ leadsInFlight' = leadsInFlight \ {call}
    /\ req' = [op |-> "create_lead", payload |-> call.payload]
    /\ filt' = None
    /\ crm' = CrmForward(tok, outcome).did
    /\ resp' = IF CrmForward(tok, outcome).raised # None
               THEN InternalServerError
               ELSE [code |-> 200, body |-> [_id |-> call.lead_id, score |-> call.score]]
    /\ UNCHANGED <<dbUp, property, service, lead, seed>>

(***************************************************************************)
(* Inputs.                                                                 *)
(***************************************************************************)
SlugA == <<"a">>
SlugB == <<"b">>

PayloadA1 ==
    [ slug |-> SlugA, type |-> "residential", status |-> "available",
      price |-> 450000, location |-> <<"C", "a", "n", "c", "u", "n">>,
      city |-> Some(<<"C", "a", "n", "c", "u", "n">>), state |-> None,
      bedrooms |-> Some(3), bathrooms |-> Some(2), featured |-> TRUE ]
PayloadA2 ==
    [ slug |-> SlugA, type |-> "commercial", status |-> "sold",
      price |-> 0, location |-> <<"L", "e", "o", "n">>,
      city |-> None, state |-> Some(<<"G", "t", "o">>),
      bedrooms |-> None, bathrooms |-> None, featured |-> FALSE ]
PayloadB ==
    [ slug |-> SlugB, type |-> "land", status |-> "pre-sale",
      price |-> 500000, location |-> <<"T", "u", "l", "u", "m">>,
      city |-> None, state |-> None,
      bedrooms |-> Some(0), bathrooms |-> None, featured |-> FALSE ]
Payloads == {PayloadA1, PayloadA2}
PutPayloads == {PayloadB}

Id1Upper == Chars("0", 22) \o <<"A", "1">>
IdAbsent == Chars("0", 22) \o <<"a", "9">>
IdNotHex == Chars("0", 22) \o <<"g", "1">>
\* 24 characters: 11 bytes in hex, then two spaces.
IdSpaced == Chars("0", 20) \o <<"a", "1", " ", " ">>
\* 24 characters: 11 bytes in hex, then two vertical tabs.
IdTabbed == Chars("0", 22) \o <<"", "">>
PropIds == {Id1Upper, IdAbsent, IdNotHex, IdSpaced, IdTabbed}
Identifiers == PropIds \cup {SlugA, SlugB, SeedAzure.slug}
InsertRaises == BOOLEAN
ServicePayloads == {[slug |-> <<"s">>]}

StatusEnum == {"pre-sale", "available", "sold"}
PatchStatuses == {"sold", "archived"}

NoQuery ==
    [ location |-> None, type |-> None, status |-> None, min_price |-> None,
      max_price |-> None, bedrooms |-> None, bathrooms |-> None, featured |-> None ]
Queries ==
    { NoQuery,
      [NoQuery EXCEPT !.location = Some(<<"c", "a", "n">>), !.min_price = Some(0),
                      !.max_price = Some(500000), !.featured = Some(TRUE)] }
Limits == {-1, 0, DefaultLimit}

\* Every combination of absent / present-but-falsy / present parameters.
AllQueries ==
    [ location : {None, Some(<<>>), Some(<<"c", "a", "n">>)},
      type : {None, Some(""), Some("residential")},
      status : {None, Some(""), Some("sold")},
      min_price : {None, Some(0), Some(100000)},
      max_price : {None, Some(0), Some(500000)},
      bedrooms : {None, Some(0), Some(3)},
      bathrooms : {None, Some(0), Some(2)},
      featured : {None, Some(FALSE), Some(TRUE)} ]

\* Searches by location, type, status and price bounds.
SearchQueries ==
    { q \in AllQueries :
        /\ q.location \in {None, Some(<<"c", "a", "n">>)}
        /\ q.type \in {None, Some("residential")}
        /\ q.status \in {None, Some("sold")}
        /\ q.min_price \in {None, Some(0)}
        /\ q.max_price \in {None, Some(500000)}
        /\ q.bedrooms = None /\ q.bathrooms = None /\ q.featured = None }

LeadPayloads ==
    [ name : {"Ana"},
      email : {None, Some(""), Some("a@b.com")},
      phone : {None, Some(Str("5", PhoneMinLen - 1)), Some(Str("5", PhoneMinLen))},
      message : {None, Some(Str("x", MessageLen)), Some(Str("x", MessageLen + 1))},
      score : {None, Some(99)} ]
Tokens == {None, Some(""), Some("tok")}
Outcomes == {"ok", "raises"}

(***************************************************************************)
(* Specifications.                                                         *)
(***************************************************************************)
Init ==
    /\ dbUp \in BOOLEAN
    /\ property = <<>>
    /\ service = <<>>
    /\ lead = <<>>
    /\ req = [op |-> "none"]
    /\ filt = None
    /\ resp = [code |-> 0, body |-> <<>>]
    /\ crm = "none"
    /\ seed = [w \in 1..MaxSeeds |-> SeedIdle]
    /\ leadsInFlight = {}

ListProperties == \E q \in Queries, limit \in Limits : list_properties(q, limit)
GetProperty == \E identifier \in Identifiers : get_property(identifier)
CreateProperty == \E payload \in Payloads : create_property(payload)
UpdateProperty ==
    \E prop_id \in PropIds, payload \in PutPayloads : update_property(prop_id, payload)
UpdatePropertyStatus ==
    \E prop_id \in PropIds, status \in PatchStatuses : update_property_status(prop_id, status)
CreateService == \E payload \in ServicePayloads : create_service(payload)
SeedCountProperty == \E w \in 1..MaxSeeds : seed_count_property(w)
SeedInsertProperty ==
    \E w \in 1..MaxSeeds, raises \in InsertRaises : seed_insert_property(w, raises)
SeedCountService == \E w \in 1..MaxSeeds : seed_count_service(w)
SeedInsertService ==
    \E w \in 1..MaxSeeds, raises \in InsertRaises : seed_insert_service(w, raises)

\* The property and service endpoints and the seed.
Next ==
    \/ ListProperties
    \/ GetProperty
    \/ CreateProperty
    \/ UpdateProperty
    \/ UpdatePropertyStatus
    \/ CreateService
    \/ SeedCountProperty
    \/ SeedInsertProperty
    \/ SeedCountService
    \/ SeedInsertService

Spec == Init /\ [][Next]_vars

\* The lead endpoint.
CreateLeadInsert == \E payload \in LeadPayloads : create_lead_insert(payload)
CreateLeadForward ==
    \E call \in leadsInFlight, tok \in Tokens, outcome \in Outcomes :
        create_lead_forward(call, tok, outcome)

LeadNext ==
    \/ CreateLeadInsert
    \/ CreateLeadForward

LeadSpec == Init /\ [][LeadNext]_vars

\* The service started without a store (database.db is None, and stays
\* so): the steps its endpoints take.
NoStoreInit == Init /\ ~dbUp

NoStoreNext ==
    \/ \E q \in SearchQueries, limit \in Limits : list_properties(q, limit)
    \/ GetProperty
    \/ CreateProperty
    \/ UpdateProperty
    \/ UpdatePropertyStatus
    \/ CreateService
    \/ SeedCountProperty
    \/ CreateLeadInsert

NoStoreSpec == NoStoreInit /\ [][NoStoreNext]_vars

\* The filter builder over every combination of parameters: a search request
\* arrives (Init) at a store that is empty or seeded, and is handled.
FilterInit ==
    /\ dbUp \in BOOLEAN
    /\ property \in {<<>>, SeededProperty}
    /\ service = <<>>
    /\ lead = <<>>
    /\ req \in [op : {"pending"}, q : AllQueries, limit : {DefaultLimit}]
    /\ filt = None
    /\ resp = [code |-> 0, body |-> <<>>]
    /\ crm = "none"
    /\ seed = [w \in 1..MaxSeeds |-> SeedIdle]
    /\ leadsInFlight = {}

HandleSearch == req.op = "pending" /\ list_properties(req.q, req.limit)

FilterSpec == FilterInit /\ [][HandleSearch]_vars

(***************************************************************************)
(* Properties.                                                             *)
(***************************************************************************)
Listed == req.op = "list_properties"
LastProperty == property[Len(property)]
\* The stored leads the last create_lead response names.
AnsweredLeads == {i \in 1..Len(lead) : StrOfObjectId(lead[i]._id) = resp.body._id}
\* A well-formed id string: the 24 hex digits of a 12-byte identifier.
WellFormedId(s) == Len(s) = OidLen /\ \A i \in 1..Len(s) : s[i] \in HexDigits

\* C1: the number of properties GET /api/properties returns is at most the
\* bound its limit parameter fixes (|limit|), whatever the limit, 0 and
\* negative values included, and whatever the store holds.
C1_LimitBoundsResult ==
    Listed => Len(resp.body) <= Abs(req.limit)

\* C2: every stored property has a status among pre-sale, available, sold,
\* after any sequence of create, PUT, PATCH /status and seed.
C2_StatusEnumerated ==
    \A i \in 1..Len(property) : property[i].status \in StatusEnum

C3_Fetches ==
    /\ GetResponse(resp.body._id, "evaluates") = GetResponse(req.payload.slug, "evaluates")
    /\ GetResponse(resp.body._id, "evaluates") =
          [code |-> 200, body |-> SerializeDoc(LastProperty)]
C3_Step ==
    (req'.op = "create_property" /\ create_property(req'.payload) /\ resp'.code = 200)
        => C3_Fetches'
\* C3: right after a property is created, get_property by the returned id
\* and get_property by its slug answer the same serialized document, the
\* one just created.
C3_CreateThenFetchRoundTrip == [][C3_Step]_vars

\* C4: without a store connection GET /api/properties answers the empty
\* list as a success, and POST /api/properties answers an error, stores
\* nothing and never answers a success payload.
C4_StoreUnavailable ==
    ~dbUp =>
        /\ Listed => resp = [code |-> 200, body |-> <<>>]
        /\ req.op = "create_property" => (resp.code >= 500 /\ property = <<>>)

C4_Witness ==
    ~dbUp /\ req.op = "create_property" /\ resp.code = 500

HasId(coll, prop_id) ==
    \E i \in 1..Len(coll) : StrOfObjectId(coll[i]._id) = Lower(prop_id)
\* The step is the handling of the PUT or PATCH request that req' holds.
UpdateStep ==
    \/ req'.op = "update_property" /\ update_property(req'.prop_id, req'.payload)
    \/ req'.op = "update_property_status"
          /\ update_property_status(req'.prop_id, req'.status)
C5_Step ==
    (dbUp /\ UpdateStep) =>
        /\ resp'.code = IF ~WellFormedId(req'.prop_id) THEN 400
                        ELSE IF ~HasId(property, req'.prop_id) THEN 404
                        ELSE 200
        /\ resp'.code = 200 => resp'.body = [updated |-> TRUE]
        /\ resp'.code \in {400, 404} => property' = property
\* C5: with a store connected, PUT /api/properties/{id} and PATCH
\* /api/properties/{id}/status answer 400 for a malformed id (anything but
\* the 24 hex digits of a 12-byte identifier), 404 for a well-formed id
\* that matches no stored document, {updated: true} otherwise; a 400 or a
\* 404 leaves the property collection unchanged.
C5_UpdateOutcomes == [][C5_Step]_vars

OrList == filt[1]["$or"]
MatchesNothing(identifier) ==
    \A i \in 1..Len(property) :
        /\ property[i].slug # identifier
        /\ ~(WellFormedId(identifier) /\ StrOfObjectId(property[i]._id) = Lower(identifier))
C6_Answered ==
    /\ filt # None /\ DOMAIN filt[1] = {"$or"}
    /\ DOMAIN OrList[1] = {"slug"} /\ OrList[1]["slug"] = req.identifier
    /\ ~WellFormedId(req.identifier) => Len(OrList) = 1
    /\ WellFormedId(req.identifier) =>
          /\ Len(OrList) = 2
          /\ DOMAIN OrList[2] = {"_id"}
          /\ StrOfObjectId(OrList[2]["_id"]) = Lower(req.identifier)
    /\ MatchesNothing(req.identifier) => resp.code = 404
C6_Step ==
    (dbUp /\ req'.op = "get_property" /\ get_property(req'.identifier)) => C6_Answered'
\* C6: get_property sends one OR query; for a malformed identifier
\* (anything but the 24 hex digits of a 12-byte identifier) it holds the
\* slug clause alone (no _id clause), for a well-formed identifier the slug
\* clause and the _id clause; an identifier that matches no document by
\* slug or by id is answered 404.
C6_IdentifierLookup == [][C6_Step]_vars

Present(o) == o # None /\ o[1] # ""
ExpectedScore(p) ==
    (IF Present(p.email) THEN 10 ELSE 0)
  + (IF p.phone # None /\ Len(p.phone[1]) >= 10 THEN 20 ELSE 0)
  + (IF p.message # None /\ Len(p.message[1]) > 80 THEN 10 ELSE 0)
\* C7: the score stored with a lead and returned by POST /api/leads is
\* +10 for a non-empty email, +20 for a phone of length >= 10, +10 for a
\* message of length > 80, and nothing else; a score sent by the client is
\* overwritten.
C7_LeadScore ==
    (req.op = "create_lead" /\ resp.code = 200) =>
        /\ resp.body.score = ExpectedScore(req.payload)
        /\ AnsweredLeads # {}
        /\ \A i \in AnsweredLeads : lead[i].score = ExpectedScore(req.payload)

C7_Witness ==
    /\ req.op = "create_lead" /\ resp.code = 200
    /\ req.payload.score = Some(99) /\ resp.body.score = 40
    /\ \E i \in AnsweredLeads : lead[i].score = 40

\* C8: whatever the CRM forward does (no credential, a successful call, a
\* call that raises), a lead submitted to a connected store is stored and
\* POST /api/leads answers its id and score; the only failure of the
\* handler is the store's.
C8_CrmNeverFailsLead ==
    req.op = "create_lead" =>
        /\ resp.code = 200 <=> dbUp
        /\ dbUp =>
              /\ crm \in {"disabled", "sent", "failed"}
              /\ \E i \in 1..Len(lead) :
                    /\ \A k \in DOMAIN req.payload \ {"score"} : lead[i][k] = req.payload[k]
                    /\ resp.body._id = StrOfObjectId(lead[i]._id)
                    /\ resp.body.score = lead[i].score

C8_Witness ==
    /\ req.op = "create_lead" /\ crm = "failed" /\ resp.code = 200
    /\ \E i \in 1..Len(lead) : resp.body._id = StrOfObjectId(lead[i]._id)

SuppliedKeys(q) ==
    {k \in {"type", "status", "bedrooms", "bathrooms", "featured"} : q[k] # None}
    \cup (IF q.location # None THEN {"$or"} ELSE {})
    \cup (IF q.min_price # None \/ q.max_price # None THEN {"price"} ELSE {})
\* C9 as claimed: the predicate holds exactly one clause per parameter
\* group that is present (not None), and nothing else.
C9_OneClausePerSuppliedParameter ==
    (dbUp /\ Listed) => DOMAIN filt[1] = SuppliedKeys(req.q)

PresentParam(q, k) ==
    IF k \in {"location", "type", "status"}
    THEN q[k] # None /\ Len(q[k][1]) > 0
    ELSE q[k] # None
PresentKeys(q) ==
    {k \in {"type", "status", "bedrooms", "bathrooms", "featured"} : PresentParam(q, k)}
    \cup (IF PresentParam(q, "location") THEN {"$or"} ELSE {})
    \cup (IF PresentParam(q, "min_price") \/ PresentParam(q, "max_price")
          THEN {"price"} ELSE {})
Satisfies(d, q) ==
    /\ PresentParam(q, "location") =>
          \/ RegexSearch(q.location[1], Some(d.location))
          \/ RegexSearch(q.location[1], d.city)
          \/ RegexSearch(q.location[1], d.state)
    /\ PresentParam(q, "type") => d.type = q.type[1]
    /\ PresentParam(q, "status") => d.status = q.status[1]
    /\ PresentParam(q, "min_price") => d.price >= q.min_price[1]
    /\ PresentParam(q, "max_price") => d.price <= q.max_price[1]
    /\ PresentParam(q, "bedrooms") => (d.bedrooms # None /\ d.bedrooms[1] >= q.bedrooms[1])
    /\ PresentParam(q, "bathrooms") => (d.bathrooms # None /\ d.bathrooms[1] >= q.bathrooms[1])
    /\ PresentParam(q, "featured") => d.featured = q.featured[1]
\* C9, amended: location, type and status count as present when they are
\* supplied and non-empty, the other parameters when they are supplied
\* (0 and false included). The predicate holds exactly one clause per
\* present group, the location group being the single "$or" clause and
\* featured an equality with the value sent; the documents returned are
\* those that satisfy every clause; no present parameter gives the empty
\* predicate, which every document satisfies.
C9_OneClausePerPresentParameter ==
    (dbUp /\ Listed) =>
        /\ DOMAIN filt[1] = PresentKeys(req.q)
        /\ "$or" \in DOMAIN filt[1] =>
              /\ Len(filt[1]["$or"]) = 3
              /\ \A i \in 1..3 : \E k \in {"location", "city", "state"} :
                    /\ DOMAIN filt[1]["$or"][i] = {k}
                    /\ filt[1]["$or"][i][k]["$regex"] = req.q.location[1]
        /\ "featured" \in DOMAIN filt[1] => filt[1]["featured"] = req.q.featured[1]
        /\ PresentKeys(req.q) = {} => filt[1] = EmptyDict
        /\ Len(property) <= req.limit =>
              /\ resp.body = SerializeAll(SelectSeq(property, LAMBDA d : Satisfies(d, req.q)))
              /\ PresentKeys(req.q) = {} => resp.body = SerializeAll(property)

C9_Witness ==
    /\ dbUp /\ Listed /\ Len(property) > 0
    /\ req.q.type = Some("") /\ req.q.featured = Some(FALSE) /\ req.q.location = None
    /\ DOMAIN filt[1] = {"featured"} /\ filt[1]["featured"] = FALSE

\* C10: when min_price or max_price is present (0 included) the predicate
\* has one price clause, with >= min_price iff min_price is present and
\* <= max_price iff max_price is present; when both are absent it has no
\* price clause.
C10_PriceClause ==
    (dbUp /\ Listed) =>
        LET lo == req.q.min_price
            hi == req.q.max_price
        IN IF lo = None /\ hi = None
           THEN "price" \notin DOMAIN filt[1]
           ELSE /\ "price" \in DOMAIN filt[1]
                /\ DOMAIN filt[1]["price"] =
                      (IF lo # None THEN {"$gte"} ELSE {}) \cup (IF hi # None THEN {"$lte"} ELSE {})
                /\ lo # None => filt[1]["price"]["$gte"] = lo[1]
                /\ hi # None => filt[1]["price"]["$lte"] = hi[1]

C10_Witness ==
    /\ dbUp /\ Listed
    /\ req.q.min_price = Some(0) /\ req.q.max_price = None
    /\ DOMAIN filt[1]["price"] = {"$gte"} /\ filt[1]["price"]["$gte"] = 0

====
